---- MODULE Spec2Model ----
\* Model of go-appsettings: the Composer (NewComposerWithReader, WithUpdater,
\* WithValidator, Read), the document source it owns (an io.ReadCloser), the
\* EnvUpdater and Validator plugins and the caller's settings value.
EXTENDS Integers, Sequences, FiniteSets, TLC

VARIABLES
    fs,        \* the file appsettings.json in the working directory
    src,       \* the document source the Composer holds: the caller's io.ReadCloser or the opened *os.File
    composer,  \* the fields of the Composer the caller holds
    settings,  \* the caller's *TestSettings value
    frame,     \* per caller: the activation of Composer.Read (position, locals, named result)
    last       \* the caller's last NewComposerWithReader / With... call and what it returned

vars == <<fs, src, composer, settings, frame, last>>

\* ---------------------------------------------------------------- bounds
\* Read calls that get past the guards, per document source.
MaxCloses == 2

\* ---------------------------------------------------------------- values
Callers == {"main", "other"}

NilReader == "nil"
NilUpdater == "nil"
NilValidator == "nil"
NilSettings == "nil"
Absent == "<absent>"

\* An error is the sequence of its messages; the nil error is the empty sequence.
NilErr == <<>>

ErrAppSettingsNil == <<"appsettings instance is nil">>
ErrSettingsParamNil == <<"settings parameter is nil">>
ErrReaderNil == <<"no settings reader provided">>
ErrOpeningFile == <<"failed to open appsettings file">>
ErrClosingFile == <<"failed to close appsettings file">>
ErrReadingFile == <<"failed to read appsettings file">>
ErrUnmarshalingFile == <<"failed to unmarshal appsettings file">>
ErrUpdateSettings == <<"failed to update settings with env vars">>
ErrValidateSettings == <<"failed to validate settings">>
DefaultAppSettingsFile == "appsettings.json"

\* errors.Join(a, b): nil operands are discarded, the messages are kept in order.
Join(a, b) == a \o b

\* errors.Is / assert.ErrorContains on a joined error.
Is(err, target) ==
    /\ target # NilErr
    /\ \A k \in 1..Len(target) : \E i \in 1..Len(err) : err[i] = target[k]

\* ---------------------------------------------------------------- documents
\* A document is what the byte stream holds: zero bytes, text that is not
\* JSON, JSON whose value has the wrong type for a later field, or an object
\* naming some of the fields ("msg-level" -> Global.Log.Level,
\* "google.app.credentials" -> Google.App.Credentials).
EmptyDoc == [kind |-> "empty", Level |-> Absent, Credentials |-> Absent]
NotJsonDoc == [kind |-> "syntax", Level |-> Absent, Credentials |-> Absent]
BadTypeDoc == [kind |-> "type", Level |-> "Debug", Credentials |-> Absent]
BareDoc == [kind |-> "ok", Level |-> Absent, Credentials |-> Absent]
DebugDoc == [kind |-> "ok", Level |-> "Debug", Credentials |-> Absent]

Docs == {EmptyDoc, NotJsonDoc, BadTypeDoc, BareDoc, DebugDoc}

\* The contents the tests write to appsettings.json.
FileDocs == {NotJsonDoc, DebugDoc}

\* The working directory without appsettings.json, and with it.
NoFile == [exists |-> FALSE, content |-> EmptyDoc]
FileOf(doc) == [exists |-> TRUE, content |-> doc]

\* The zero value &TestSettings{}.
ZeroSettings == [Level |-> "", Credentials |-> ""]

\* The settings arguments a caller passes to Read: nil, the *TestSettings, a
\* pointer to a struct of another type, a pointer to a type whose
\* UnmarshalJSON panics.
SettingsArgs == {NilSettings, "testSettings", "foreign", "panicky"}

\* json.Unmarshal(data, settings): the syntax is checked before anything is
\* written; a type error is reported after the fields before it were written.
Unmarshal(data, arg, s) ==
    LET written == [Level |-> IF data.Level = Absent THEN s.Level ELSE data.Level,
                    Credentials |-> IF data.Credentials = Absent THEN s.Credentials
                                    ELSE data.Credentials]
        out == IF arg = "testSettings" THEN written ELSE s
    IN  CASE data.kind = "empty" ->
                [out |-> "err", err |-> <<"unexpected end of JSON input">>, settings |-> s]
          [] data.kind = "syntax" ->
                [out |-> "err", err |-> <<"invalid character '\"' after object key">>,
                 settings |-> s]
          [] arg = "panicky" ->
                [out |-> "panic", err |-> NilErr, settings |-> s]
          [] data.kind = "type" ->
                [out |-> "err", err |-> <<"json: cannot unmarshal number into Go struct field">>,
                 settings |-> out]
          [] OTHER ->
                [out |-> "ok", err |-> NilErr, settings |-> out]

\* ---------------------------------------------------------------- sources
\* A freshly made source over a document: kind "reader" is an io.ReadCloser
\* of the caller (TestReader is the one without content), kind "file" the
\* *os.File of appsettings.json. closes counts the calls of Close, reads the
\* calls of Composer.Read that got past the guards and so reached the source.
NewSource(kind, doc, readErr, closeErr) ==
    [kind |-> kind, content |-> doc, HasReadError |-> readErr, HasCloseError |-> closeErr,
     atEOF |-> FALSE, closes |-> 0, reads |-> 0]

NoSource == NewSource("none", EmptyDoc, FALSE, FALSE)

\* io.ReadAll(r): an error of Read ends it; otherwise everything up to EOF.
\* An *os.File that was closed fails every later Read.
ReadAll(r) ==
    IF r.HasReadError
    THEN [err |-> <<"read error">>, data |-> EmptyDoc, src |-> r]
    ELSE IF r.kind = "file" /\ r.closes > 0
    THEN [err |-> <<"read appsettings.json: file already closed">>, data |-> EmptyDoc,
          src |-> r]
    ELSE [err |-> NilErr, data |-> IF r.atEOF THEN EmptyDoc ELSE r.content,
          src |-> [r EXCEPT !.atEOF = TRUE]]

\* r.Close(): TestReader.Close fails when HasCloseError; an *os.File fails
\* when it is closed a second time, or when the system reports an error.
Close(r) ==
    LET closed == [r EXCEPT !.closes = r.closes + 1]
    IN  IF r.HasCloseError
        THEN [err |-> IF r.kind = "file"
                      THEN <<"close appsettings.json: input/output error">>
                      ELSE <<"close error">>,
              src |-> closed]
        ELSE IF r.kind = "file" /\ r.closes > 0
        THEN [err |-> <<"close appsettings.json: file already closed">>, src |-> closed]
        ELSE [err |-> NilErr, src |-> closed]

\* The readers a caller makes and hands to NewComposerWithReader.
Readers == {NewSource("reader", d, re, ce) : d \in Docs, re \in BOOLEAN, ce \in BOOLEAN}

\* os.Open(DefaultAppSettingsFile)
Open(file) ==
    IF ~file.exists
    THEN [err |-> <<"open appsettings.json: no such file or directory">>,
          src |-> NoSource]
    ELSE [err |-> NilErr, src |-> NewSource("file", file.content, FALSE, FALSE)]

\* ---------------------------------------------------------------- plugins
\* The TestUpdater values a caller attaches.
Updaters ==
    [ creds   |-> [LogLevel |-> "", GoogleCredentials |-> "something", UpdateError |-> NilErr],
      level   |-> [LogLevel |-> "Info", GoogleCredentials |-> "", UpdateError |-> NilErr],
      failing |-> [LogLevel |-> "", GoogleCredentials |-> "something",
                   UpdateError |-> <<"updater error">>] ]

UpdaterIds == DOMAIN Updaters

\* The validators a caller attaches: the *TestSettings itself, or a nil
\* *TestSettings (a non-nil interface whose method dereferences nil).
ValidatorIds == {"settings", "nilptr"}

\* TestUpdater.Update(settings): the type assertion yields a nil pointer for
\* a settings value of another type, and writing through it panics.
Update(u, arg, s) ==
    LET upd == Updaters[u]
        writes == upd.LogLevel # "" \/ upd.GoogleCredentials # ""
    IN  IF arg # "testSettings" /\ writes
        THEN [out |-> "panic", err |-> NilErr, settings |-> s]
        ELSE [out |-> IF upd.UpdateError = NilErr THEN "ok" ELSE "err",
              err |-> upd.UpdateError,
              settings |-> IF arg # "testSettings" THEN s
                           ELSE [Level |-> IF upd.LogLevel # "" THEN upd.LogLevel ELSE s.Level,
                                 Credentials |-> IF upd.GoogleCredentials # ""
                                                 THEN upd.GoogleCredentials
                                                 ELSE s.Credentials]]

\* TestSettings.Validate(settings): checks the receiver, joins one message
\* per empty required field.
Validate(v, s) ==
    IF v = "nilptr"
    THEN [out |-> "panic", err |-> NilErr]
    ELSE LET e1 == IF s.Level = "" THEN <<"Global.Log.Level is required">> ELSE NilErr
             e2 == IF s.Credentials = "" THEN <<"Google.App.Credentials is required">>
                   ELSE NilErr
             errs == Join(Join(NilErr, e1), e2)
         IN  [out |-> IF errs = NilErr THEN "ok" ELSE "err", err |-> errs]

\* ---------------------------------------------------------------- Composer
\* What the caller holds after a constructor or attach call: the call, its
\* argument and the error it returned. NoCall once the caller has moved on.
\* For an attach call, replaced is what the slot held before it.
NoCall ==
    [op |-> "none", reader |-> NoSource, plugin |-> "nil", replaced |-> "nil",
     ok |-> TRUE, err |-> NilErr]
Constructed(r, err) ==
    [op |-> "NewComposerWithReader", reader |-> r, plugin |-> "nil", replaced |-> "nil",
     ok |-> err = NilErr, err |-> err]
Attached(op, plugin, replaced) ==
    [op |-> op, reader |-> NoSource, plugin |-> plugin, replaced |-> replaced,
     ok |-> TRUE, err |-> NilErr]

\* &Composer{}: no source, no plugins.
ZeroComposer == [jsonReader |-> NilReader, updater |-> NilUpdater, validator |-> NilValidator]

IdleFrame ==
    [pc |-> "idle", status |-> "none", recvNil |-> FALSE, arg |-> NilSettings,
     reader |-> NilReader, data |-> EmptyDoc, err |-> NilErr, log |-> <<>>,
     pre |-> ZeroSettings, eof |-> FALSE, nth |-> 0, closed |-> FALSE,
     updater |-> NilUpdater, validator |-> NilValidator, ifErr |-> NilErr]

\* The caller is between two calls of Read and has taken the last result.
Idle(t) == frame[t] = IdleFrame

\* No Read call is in progress.
Quiet == \A t \in Callers : Idle(t)

\* The call is over: Read returned or panicked, its result is in the frame.
Done(t) == frame[t].pc = "idle" /\ frame[t].status \in {"returned", "panicked"}

Init ==
    /\ fs = NoFile
    /\ src = NoSource
    /\ composer = ZeroComposer
    /\ settings = ZeroSettings
    /\ frame = [t \in Callers |-> IdleFrame]
    /\ last = NoCall

\* The caller re-assigns the flags of the reader it handed to the Composer,
\* as the test does.
SetReader(readErr, closeErr) ==
    /\ Quiet
    /\ src.kind = "reader"
    /\ src' = [src EXCEPT !.HasReadError = readErr, !.HasCloseError = closeErr]
    /\ last' = NoCall
    /\ UNCHANGED <<fs, composer, settings, frame>>

\* os.WriteFile("appsettings.json", ...): creates the file or rewrites it in
\* place, so a handle that is open on it sees the new content.
WriteFile(doc) ==
    /\ Quiet
    /\ fs # FileOf(doc)
    /\ fs' = FileOf(doc)
    /\ src' = [src EXCEPT !.content = IF src.kind = "file" THEN doc ELSE @]
    /\ last' = NoCall
    /\ UNCHANGED <<composer, settings, frame>>

\* A constructor that tries the reader it is given: it reads it once and
\* refuses a reader whose read fails.
NewComposerWithReaderProbing(jsonReadCloser) ==
    /\ Quiet
    /\ IF jsonReadCloser.kind = "none"
       THEN LET f == Open(fs)
            IN  IF f.err # NilErr
                THEN /\ last' = Constructed(jsonReadCloser, Join(ErrOpeningFile, f.err))
                     /\ UNCHANGED <<src, composer>>
                ELSE /\ src' = f.src
                     /\ composer' = [jsonReader |-> "file", updater |-> NilUpdater,
                                     validator |-> NilValidator]
                     /\ last' = Constructed(jsonReadCloser, NilErr)
       ELSE IF jsonReadCloser.HasReadError
       THEN /\ last' = Constructed(jsonReadCloser, Join(ErrReadingFile, <<"read error">>))
            /\ UNCHANGED <<src, composer>>
       ELSE /\ src' = [jsonReadCloser EXCEPT !.atEOF = TRUE]
            /\ composer' = [jsonReader |-> "reader", updater |-> NilUpdater,
                            validator |-> NilValidator]
            /\ last' = Constructed(jsonReadCloser, NilErr)
    /\ UNCHANGED <<fs, settings, frame>>

\* A constructor that reports a failed open without its cause.
NewComposerWithReaderBareError(jsonReadCloser) ==
    /\ Quiet
    /\ IF jsonReadCloser.kind = "none"
       THEN LET f == Open(fs)
            IN  IF f.err # NilErr
                THEN /\ last' = Constructed(jsonReadCloser, ErrOpeningFile)
                     /\ UNCHANGED <<src, composer>>
                ELSE /\ src' = f.src
                     /\ composer' = [jsonReader |-> "file", updater |-> NilUpdater,
                                     validator |-> NilValidator]
                     /\ last' = Constructed(jsonReadCloser, NilErr)
       ELSE /\ src' = jsonReadCloser
            /\ composer' = [jsonReader |-> "reader", updater |-> NilUpdater,
                            validator |-> NilValidator]
            /\ last' = Constructed(jsonReadCloser, NilErr)
    /\ UNCHANGED <<fs, settings, frame>>

\* NewComposerWithReader(jsonReadCloser) with the reader the caller made
\* (nil for none); NewComposer() is the call with nil.
NewComposerWithReader(jsonReadCloser) ==
    /\ Quiet
    /\ IF jsonReadCloser.kind = "none"
       THEN LET f == Open(fs)
            IN  IF f.err # NilErr
                THEN /\ last' = Constructed(jsonReadCloser, Join(ErrOpeningFile, f.err))
                     /\ UNCHANGED <<src, composer>>
                ELSE /\ src' = f.src
                     /\ composer' = [jsonReader |-> "file", updater |-> NilUpdater,
                                     validator |-> NilValidator]
                     /\ last' = Constructed(jsonReadCloser, NilErr)
       ELSE /\ src' = jsonReadCloser
            /\ composer' = [jsonReader |-> "reader", updater |-> NilUpdater,
                            validator |-> NilValidator]
            /\ last' = Constructed(jsonReadCloser, NilErr)
    /\ UNCHANGED <<fs, settings, frame>>

\* An attach that fills the slot only while it is empty.
WithUpdaterKeepsFirst(updater) ==
    /\ Quiet
    /\ composer' = [composer EXCEPT !.updater = IF @ = NilUpdater THEN updater ELSE @]
    /\ last' = Attached("WithUpdater", updater, composer.updater)
    /\ UNCHANGED <<fs, src, settings, frame>>

WithUpdater(updater) ==
    /\ Quiet
    /\ composer' = [composer EXCEPT !.updater = updater]
    /\ last' = Attached("WithUpdater", updater, composer.updater)
    /\ UNCHANGED <<fs, src, settings, frame>>

\* An attach with a value receiver: the validator goes into a copy, which is
\* returned, and the Composer it was called on stays as it was.
WithValidatorOnCopy(validator) ==
    /\ Quiet
    /\ last' = Attached("WithValidator", validator, composer.validator)
    /\ UNCHANGED <<fs, src, composer, settings, frame>>

WithValidator(validator) ==
    /\ Quiet
    /\ composer' = [composer EXCEPT !.validator = validator]
    /\ last' = Attached("WithValidator", validator, composer.validator)
    /\ UNCHANGED <<fs, src, settings, frame>>

\* ---------------------------------------------------------------- Read
\* Guards with the reader checked before the settings argument.
GuardsReaderFirst(recvNil, arg, reader) ==
    IF recvNil THEN ErrAppSettingsNil
    ELSE IF reader = NilReader THEN ErrReaderNil
    ELSE IF arg = NilSettings THEN ErrSettingsParamNil
    ELSE NilErr

\* Step 0 of Read: the three guards, in the order of the code.
Guards(recvNil, arg, reader) ==
    IF recvNil THEN ErrAppSettingsNil
    ELSE IF arg = NilSettings THEN ErrSettingsParamNil
    ELSE IF reader = NilReader THEN ErrReaderNil
    ELSE NilErr

\* The call of Read with the close deferred ahead of the guards: a call that
\* fails a guard on a Composer with a source still closes the source.
ReadCallDefersFirst(t, recvNil, arg) ==
    /\ Idle(t)
    /\ LET reader == IF recvNil THEN NilReader ELSE composer.jsonReader
           g == Guards(recvNil, arg, reader)
           deferred == reader # NilReader
       IN  /\ g = NilErr \/ deferred => src.closes < MaxCloses
           /\ frame' = [frame EXCEPT ![t] =
                 [pc |-> IF g = NilErr THEN "readall" ELSE IF deferred THEN "close" ELSE "idle",
                  status |-> IF g = NilErr \/ deferred THEN "running" ELSE "returned",
                  recvNil |-> recvNil, arg |-> arg, reader |-> reader,
                  data |-> EmptyDoc, err |-> g, log |-> <<>>,
                  pre |-> settings, eof |-> src.atEOF,
                  nth |-> IF g = NilErr \/ deferred THEN src.reads + 1 ELSE 0,
                  closed |-> src.closes > 0,
                  updater |-> NilUpdater, validator |-> NilValidator,
                  ifErr |-> NilErr]]
           /\ src' = IF g = NilErr \/ deferred THEN [src EXCEPT !.reads = @ + 1] ELSE src
    /\ last' = NoCall
    /\ UNCHANGED <<fs, composer, settings>>

\* The call of Read on a nil *Composer or on the caller's Composer: the
\* guards return at once; past them the close is deferred and the call goes on.
\* The frame keeps the settings value and the source position found at the
\* call, the rank of the call among those that reached the source, and
\* whether the source had been closed by then.
ReadCall(t, recvNil, arg) ==
    /\ Idle(t)
    /\ LET reader == IF recvNil THEN NilReader ELSE composer.jsonReader
           g == Guards(recvNil, arg, reader)
       IN  /\ g = NilErr => src.closes < MaxCloses
           /\ frame' = [frame EXCEPT ![t] =
                 [pc |-> IF g = NilErr THEN "readall" ELSE "idle",
                  status |-> IF g = NilErr THEN "running" ELSE "returned",
                  recvNil |-> recvNil, arg |-> arg, reader |-> reader,
                  data |-> EmptyDoc, err |-> g, log |-> <<>>,
                  pre |-> settings, eof |-> src.atEOF,
                  nth |-> IF g = NilErr THEN src.reads + 1 ELSE 0,
                  closed |-> src.closes > 0,
                  updater |-> NilUpdater, validator |-> NilValidator,
                  ifErr |-> NilErr]]
           /\ src' = IF g = NilErr THEN [src EXCEPT !.reads = @ + 1] ELSE src
    /\ last' = NoCall
    /\ UNCHANGED <<fs, composer, settings>>

\* The calls Read makes on its collaborators, in order, each with its outcome
\* and the error it returned.
Logged(f, op, out, err) == Append(f.log, [op |-> op, out |-> out, err |-> err])

\* A read failure that returns without going through a deferred close.
AfterReadAllNoClose(f, r) ==
    IF r.err # NilErr
    THEN [f EXCEPT !.pc = "idle", !.status = "returned", !.err = Join(ErrReadingFile, r.err),
                   !.log = Logged(f, "read", "err", r.err)]
    ELSE [f EXCEPT !.pc = "unmarshal", !.data = r.data,
                   !.log = Logged(f, "read", "ok", NilErr)]

\* A read failure that is recorded but does not end the call: the bytes read
\* so far (none) go on to the decoder.
AfterReadAllGoesOn(f, r) ==
    IF r.err # NilErr
    THEN [f EXCEPT !.pc = "unmarshal", !.err = Join(ErrReadingFile, r.err), !.data = r.data,
                   !.log = Logged(f, "read", "err", r.err)]
    ELSE [f EXCEPT !.pc = "unmarshal", !.data = r.data,
                   !.log = Logged(f, "read", "ok", NilErr)]

\* if err != nil { return errors.Join(ErrReadingFile, err) }
AfterReadAll(f, r) ==
    IF r.err # NilErr
    THEN [f EXCEPT !.pc = "close", !.err = Join(ErrReadingFile, r.err),
                   !.log = Logged(f, "read", "err", r.err)]
    ELSE [f EXCEPT !.pc = "unmarshal", !.data = r.data,
                   !.log = Logged(f, "read", "ok", NilErr)]

\* data, err := io.ReadAll(as.jsonReader)
ReadAllStep(t) ==
    /\ frame[t].pc = "readall"
    /\ LET r == ReadAll(src)
       IN  /\ src' = r.src
           /\ frame' = [frame EXCEPT ![t] = AfterReadAll(frame[t], r)]
    /\ UNCHANGED <<fs, composer, settings, last>>

\* io.ReadAll(as.jsonReader) as the calls of Read it makes, for callers that
\* overlap. The first Read takes the whole (small) document and leaves the
\* source at its end; at the end of the stream or on an error ReadAll is over.
ReadFirstStep(t) ==
    /\ frame[t].pc = "readall"
    /\ LET r == ReadAll(src)
       IN  /\ src' = r.src
           /\ frame' = [frame EXCEPT ![t] =
                 IF r.err = NilErr /\ r.data # EmptyDoc
                 THEN [frame[t] EXCEPT !.pc = "readmore", !.data = r.data]
                 ELSE AfterReadAll(frame[t], r)]
    /\ UNCHANGED <<fs, composer, settings, last>>

\* The Read that follows: it finds the end of the stream and ReadAll returns
\* what it has, or it fails (the file was closed meanwhile) and ReadAll
\* returns the error.
ReadMoreStep(t) ==
    /\ frame[t].pc = "readmore"
    /\ LET r == ReadAll(src)
           all == IF r.err = NilErr THEN [r EXCEPT !.data = frame[t].data] ELSE r
       IN  /\ src' = r.src
           /\ frame' = [frame EXCEPT ![t] = AfterReadAll(frame[t], all)]
    /\ UNCHANGED <<fs, composer, settings, last>>

\* A decode failure that is recorded but does not end the call.
AfterUnmarshalGoesOn(f, d) ==
    CASE d.out = "panic" ->
           [f EXCEPT !.pc = "close", !.status = "panicking",
                     !.log = Logged(f, "decode", "panic", NilErr)]
      [] d.out = "err" ->
           [f EXCEPT !.pc = "update", !.err = Join(ErrUnmarshalingFile, d.err),
                     !.log = Logged(f, "decode", "err", d.err)]
      [] OTHER ->
           [f EXCEPT !.pc = "update", !.log = Logged(f, "decode", "ok", NilErr)]

\* if err = json.Unmarshal(...); err != nil { return errors.Join(ErrUnmarshalingFile, err) }
AfterUnmarshal(f, d) ==
    CASE d.out = "panic" ->
           [f EXCEPT !.pc = "close", !.status = "panicking",
                     !.log = Logged(f, "decode", "panic", NilErr)]
      [] d.out = "err" ->
           [f EXCEPT !.pc = "close", !.err = Join(ErrUnmarshalingFile, d.err),
                     !.log = Logged(f, "decode", "err", d.err)]
      [] OTHER ->
           [f EXCEPT !.pc = "update", !.log = Logged(f, "decode", "ok", NilErr)]

\* json.Unmarshal(data, settings)
UnmarshalStep(t) ==
    /\ frame[t].pc = "unmarshal"
    /\ LET d == Unmarshal(frame[t].data, frame[t].arg, settings)
       IN  /\ settings' = d.settings
           /\ frame' = [frame EXCEPT ![t] = AfterUnmarshal(frame[t], d)]
    /\ UNCHANGED <<fs, src, composer, last>>

\* An update failure that is recorded but does not end the call.
AfterUpdateGoesOn(f, u) ==
    CASE u.out = "panic" ->
           [f EXCEPT !.pc = "close", !.status = "panicking",
                     !.log = Logged(f, "update", "panic", NilErr)]
      [] u.out = "err" ->
           [f EXCEPT !.pc = "validate", !.err = Join(ErrUpdateSettings, u.err),
                     !.log = Logged(f, "update", "err", u.err)]
      [] OTHER ->
           [f EXCEPT !.pc = "validate", !.log = Logged(f, "update", "ok", NilErr)]

\* An update failure reported by its kind alone, without the updater's error.
AfterUpdateBareKind(f, u) ==
    CASE u.out = "panic" ->
           [f EXCEPT !.pc = "close", !.status = "panicking",
                     !.log = Logged(f, "update", "panic", NilErr)]
      [] u.out = "err" ->
           [f EXCEPT !.pc = "close", !.err = ErrUpdateSettings,
                     !.log = Logged(f, "update", "err", u.err)]
      [] OTHER ->
           [f EXCEPT !.pc = "validate", !.log = Logged(f, "update", "ok", NilErr)]

\* if err := as.updater.Update(settings); err != nil { return errors.Join(ErrUpdateSettings, err) }
AfterUpdate(f, u) ==
    CASE u.out = "panic" ->
           [f EXCEPT !.pc = "close", !.status = "panicking",
                     !.log = Logged(f, "update", "panic", NilErr)]
      [] u.out = "err" ->
           [f EXCEPT !.pc = "close", !.err = Join(ErrUpdateSettings, u.err),
                     !.log = Logged(f, "update", "err", u.err)]
      [] OTHER ->
           [f EXCEPT !.pc = "validate", !.log = Logged(f, "update", "ok", NilErr)]

\* Step 2 of Read with the updater working on a copy of the settings value.
UpdateStepOnCopy(t) ==
    /\ frame[t].pc = "update"
    /\ IF composer.updater = NilUpdater
       THEN frame' = [frame EXCEPT ![t].pc = "validate"]
       ELSE frame' = [frame EXCEPT ![t] =
                         [AfterUpdate(frame[t], Update(composer.updater, frame[t].arg, settings))
                             EXCEPT !.updater = composer.updater]]
    /\ UNCHANGED <<fs, src, composer, settings, last>>

\* Step 2 of Read: the updater, when one is attached.
UpdateStep(t) ==
    /\ frame[t].pc = "update"
    /\ IF composer.updater = NilUpdater
       THEN /\ frame' = [frame EXCEPT ![t].pc = "validate"]
            /\ UNCHANGED settings
       ELSE LET u == Update(composer.updater, frame[t].arg, settings)
            IN  /\ settings' = u.settings
                /\ frame' = [frame EXCEPT ![t] =
                                [AfterUpdate(frame[t], u) EXCEPT !.updater = composer.updater]]
    /\ UNCHANGED <<fs, src, composer, last>>

\* A validation whose violations are not reported: Read returns nil.
AfterValidateIgnored(f, v) ==
    CASE v.out = "panic" ->
           [f EXCEPT !.pc = "close", !.status = "panicking",
                     !.log = Logged(f, "validate", "panic", NilErr)]
      [] v.out = "err" ->
           [f EXCEPT !.pc = "close", !.err = NilErr,
                     !.log = Logged(f, "validate", "err", v.err)]
      [] OTHER ->
           [f EXCEPT !.pc = "close", !.err = NilErr,
                     !.log = Logged(f, "validate", "ok", NilErr)]

\* if errs := as.validator.Validate(settings); errs != nil {
\*     return errors.Join(ErrValidateSettings, errs) }; return nil
AfterValidate(f, v) ==
    CASE v.out = "panic" ->
           [f EXCEPT !.pc = "close", !.status = "panicking",
                     !.log = Logged(f, "validate", "panic", NilErr)]
      [] v.out = "err" ->
           [f EXCEPT !.pc = "close", !.err = Join(ErrValidateSettings, v.err),
                     !.log = Logged(f, "validate", "err", v.err)]
      [] OTHER ->
           [f EXCEPT !.pc = "close", !.err = NilErr,
                     !.log = Logged(f, "validate", "ok", NilErr)]

\* Step 3 of Read: the validator, when one is attached; then return nil.
ValidateStep(t) ==
    /\ frame[t].pc = "validate"
    /\ IF composer.validator = NilValidator
       THEN frame' = [frame EXCEPT ![t] = [frame[t] EXCEPT !.pc = "close", !.err = NilErr]]
       ELSE frame' = [frame EXCEPT ![t] =
                         [AfterValidate(frame[t], Validate(composer.validator, settings))
                             EXCEPT !.validator = composer.validator]]
    /\ UNCHANGED <<fs, src, composer, settings, last>>

\* A deferred close that joins its error to the error being returned.
AfterCloseJoined(f, c) ==
    [f EXCEPT !.pc = "idle",
              !.status = IF f.status = "panicking" THEN "panicked" ELSE "returned",
              !.err = IF c.err # NilErr THEN Join(f.err, Join(ErrClosingFile, c.err)) ELSE f.err,
              !.log = Logged(f, "close", IF c.err # NilErr THEN "err" ELSE "ok", c.err)]

\* A deferred close that reports its error only when the call had none.
AfterCloseKeepsFirst(f, c) ==
    [f EXCEPT !.pc = "idle",
              !.status = IF f.status = "panicking" THEN "panicked" ELSE "returned",
              !.err = IF c.err # NilErr /\ f.err = NilErr
                      THEN Join(ErrClosingFile, c.err) ELSE f.err,
              !.log = Logged(f, "close", IF c.err # NilErr THEN "err" ELSE "ok", c.err)]

\* A deferred close whose error is dropped.
AfterCloseSwallowed(f, c) ==
    [f EXCEPT !.pc = "idle",
              !.status = IF f.status = "panicking" THEN "panicked" ELSE "returned",
              !.log = Logged(f, "close", IF c.err # NilErr THEN "err" ELSE "ok", c.err)]

\* if closeErr := as.jsonReader.Close(); closeErr != nil {
\*     err = errors.Join(ErrClosingFile, closeErr) }
AfterClose(f, c) ==
    [f EXCEPT !.pc = "idle",
              !.status = IF f.status = "panicking" THEN "panicked" ELSE "returned",
              !.err = IF c.err # NilErr THEN Join(ErrClosingFile, c.err) ELSE f.err,
              !.log = Logged(f, "close", IF c.err # NilErr THEN "err" ELSE "ok", c.err)]

\* A deferred function that puts the settings value back as it was at the
\* call when Read ends with an error.
DeferredCloseRollsBack(t) ==
    /\ frame[t].pc = "close"
    /\ LET c == Close(src)
           f == AfterClose(frame[t], c)
       IN  /\ src' = c.src
           /\ frame' = [frame EXCEPT ![t] = f]
           /\ settings' = IF f.err # NilErr THEN frame[t].pre ELSE settings
    /\ UNCHANGED <<fs, composer, last>>

\* A deferred function that also drops the closed source from the Composer.
DeferredCloseDropsReader(t) ==
    /\ frame[t].pc = "close"
    /\ LET c == Close(src)
       IN  /\ src' = c.src
           /\ frame' = [frame EXCEPT ![t] = AfterClose(frame[t], c)]
    /\ composer' = [composer EXCEPT !.jsonReader = NilReader]
    /\ UNCHANGED <<fs, settings, last>>

\* The deferred function of Read: it runs when Read returns or panics,
\* closes the source and replaces the named result when the close fails.
DeferredClose(t) ==
    /\ frame[t].pc = "close"
    /\ LET c == Close(src)
       IN  /\ src' = c.src
           /\ frame' = [frame EXCEPT ![t] = AfterClose(frame[t], c)]
    /\ UNCHANGED <<fs, composer, settings, last>>

\* The caller takes the result of the finished call and goes on.
Return(t) ==
    /\ Done(t)
    /\ frame' = [frame EXCEPT ![t] = IdleFrame]
    /\ UNCHANGED <<fs, src, composer, settings, last>>

\* ---------------------------------------------------------------- specification
Configure ==
    \/ \E re \in BOOLEAN, ce \in BOOLEAN : SetReader(re, ce)
    \/ \E d \in FileDocs : WriteFile(d)
    \/ \E r \in Readers \cup {NoSource} : NewComposerWithReader(r)
    \/ \E u \in UpdaterIds \cup {NilUpdater} : WithUpdater(u)
    \/ \E v \in ValidatorIds \cup {NilValidator} : WithValidator(v)

ReadSteps(t) ==
    \/ \E recvNil \in BOOLEAN, arg \in SettingsArgs : Quiet /\ ReadCall(t, recvNil, arg)
    \/ ReadAllStep(t)
    \/ UnmarshalStep(t)
    \/ UpdateStep(t)
    \/ ValidateStep(t)
    \/ DeferredClose(t)
    \/ Return(t)

\* One caller: calls of Read never overlap.
Next == Configure \/ ReadSteps("main")

Spec == Init /\ [][Next]_vars

\* Two goroutines share one Composer. Their calls overlap where Go defines
\* the outcome: on the default file, whose *os.File serialises Read and
\* Close, without plugins, and with a settings value of their own (the
\* second goroutine passes a struct of another type). Elsewhere the calls
\* follow one another.
Overlappable ==
    /\ composer.jsonReader = "file"
    /\ composer.updater = NilUpdater /\ composer.validator = NilValidator

OverlappingReadSteps(t, args) ==
    \/ \E recvNil \in BOOLEAN, arg \in args :
          /\ Quiet \/ (Overlappable /\ ~recvNil)
          /\ ReadCall(t, recvNil, arg)
    \/ ReadFirstStep(t)
    \/ ReadMoreStep(t)
    \/ UnmarshalStep(t)
    \/ UpdateStep(t)
    \/ ValidateStep(t)
    \/ DeferredClose(t)
    \/ Return(t)

OverlappingNext ==
    \/ Configure
    \/ OverlappingReadSteps("main", SettingsArgs)
    \/ Overlappable /\ OverlappingReadSteps("other", {"foreign"})

OverlappingSpec == Init /\ [][OverlappingNext]_vars

\* ---------------------------------------------------------------- function style
\* The earlier entry point ReadSettingsFromFileAndEnv(settings, validator):
\* it opens appsettings.json itself, overrides from the environment with
\* envconfig and validates with the validator it is given. No Composer is
\* involved. Its error texts are those of the later sentinels.

\* What the process environment holds for the settings: nothing, a value
\* for the credentials, or a value that envconfig cannot parse.
Envs ==
    { [GoogleCredentials |-> "", malformed |-> FALSE],
      [GoogleCredentials |-> "something", malformed |-> FALSE],
      [GoogleCredentials |-> "", malformed |-> TRUE] }

\* envconfig.InitWithOptions(settings, envconfig.Options{AllOptional: true}):
\* a variable that is not set leaves its field alone.
InitWithOptions(env, arg, s) ==
    IF env.malformed
    THEN [out |-> "err", err |-> <<"envconfig: unable to parse value">>, settings |-> s]
    ELSE [out |-> "ok", err |-> NilErr,
          settings |-> IF arg = "testSettings" /\ env.GoogleCredentials # ""
                       THEN [s EXCEPT !.Credentials = env.GoogleCredentials]
                       ELSE s]

\* The call up to the first statement of the else block: os.Open, the
\* return when it fails, otherwise the defer of the close. closeErr is
\* whether the system will fail the close of the file that was opened.
ReadSettingsFromFileAndEnv(t, arg, validator, closeErr) ==
    /\ Quiet
    /\ LET file == Open(fs)
       IN  IF file.err # NilErr
           THEN /\ frame' = [frame EXCEPT ![t] =
                      [IdleFrame EXCEPT !.status = "returned", !.arg = arg,
                                        !.validator = validator, !.pre = settings,
                                        !.err = Join(ErrOpeningFile, file.err)]]
                /\ UNCHANGED src
           ELSE /\ frame' = [frame EXCEPT ![t] =
                      [IdleFrame EXCEPT !.pc = "readall", !.status = "running", !.arg = arg,
                                        !.reader = "file", !.validator = validator,
                                        !.pre = settings, !.nth = 1]]
                /\ src' = [file.src EXCEPT !.HasCloseError = closeErr, !.reads = 1]
    /\ last' = NoCall
    /\ UNCHANGED <<fs, composer, settings>>

\* if err := envconfig.InitWithOptions(...); err != nil {
\*     return errors.Join(fmt.Errorf("failed to update settings with env vars"), err) }
InitWithOptionsStep(t) ==
    /\ frame[t].pc = "update"
    /\ \E env \in Envs :
          LET u == InitWithOptions(env, frame[t].arg, settings)
          IN  /\ settings' = u.settings
              /\ frame' = [frame EXCEPT ![t] = AfterUpdate(frame[t], u)]
    /\ UNCHANGED <<fs, src, composer, last>>

\* if validator == nil { return nil }
\* if errs := validator.Validate(settings); errs != nil { return errors.Join(...) }
\* return nil
ValidatorStep(t) ==
    /\ frame[t].pc = "validate"
    /\ IF frame[t].validator = NilValidator
       THEN frame' = [frame EXCEPT ![t] = [frame[t] EXCEPT !.pc = "close", !.err = NilErr]]
       ELSE frame' = [frame EXCEPT ![t] =
                         AfterValidate(frame[t], Validate(frame[t].validator, settings))]
    /\ UNCHANGED <<fs, src, composer, settings, last>>

\* The deferred function: it runs when the function returns or panics and
\* closes the file. The err it assigns is the variable of the if statement
\* (the function's result has no name, and the err of the else block is
\* declared after the closure), so the value that was returned stays.
DeferredFileClose(t) ==
    /\ frame[t].pc = "close"
    /\ LET c == Close(src)
       IN  /\ src' = c.src
           /\ frame' = [frame EXCEPT ![t] =
                 [frame[t] EXCEPT
                    !.pc = "idle",
                    !.status = IF @ = "panicking" THEN "panicked" ELSE "returned",
                    !.ifErr = IF c.err # NilErr THEN Join(ErrClosingFile, c.err) ELSE @,
                    !.log = Logged(frame[t], "close",
                                   IF c.err # NilErr THEN "err" ELSE "ok", c.err)]]
    /\ UNCHANGED <<fs, composer, settings, last>>

FunctionNext ==
    \/ \E d \in FileDocs : WriteFile(d)
    \/ \E arg \in {"testSettings", "panicky"}, validator \in {NilValidator, "settings"},
          closeErr \in BOOLEAN :
          ReadSettingsFromFileAndEnv("main", arg, validator, closeErr)
    \/ ReadAllStep("main")
    \/ UnmarshalStep("main")
    \/ InitWithOptionsStep("main")
    \/ ValidatorStep("main")
    \/ DeferredFileClose("main")
    \/ Return("main")

FunctionSpec == Init /\ [][FunctionNext]_vars

\* ---------------------------------------------------------------- properties
\* What a finished or running call did, read off its frame.
Ops(f) == {f.log[i].op : i \in 1..Len(f.log)}
Count(f, op) == Cardinality({i \in 1..Len(f.log) : f.log[i].op = op})
Failed(f, op) == \E i \in 1..Len(f.log) : f.log[i].op = op /\ f.log[i].out = "err"
Passed(f, op) == \E i \in 1..Len(f.log) : f.log[i].op = op /\ f.log[i].out = "ok"
CauseOf(f, op) == f.log[CHOOSE i \in 1..Len(f.log) : f.log[i].op = op].err
Returned(t) == Done(t) /\ frame[t].status = "returned"

\* The call violated one of the three guards.
GuardViolated(f) == f.recvNil \/ f.arg = NilSettings \/ f.reader = NilReader

\* C1: Read reports the first violated guard, in the order nil Composer, nil
\* settings, no reader, each with its own error, and none of the three errors
\* when no guard is violated.
C1_GuardPrecedence ==
    /\ Cardinality({ErrAppSettingsNil, ErrSettingsParamNil, ErrReaderNil}) = 3
    /\ \A t \in Callers : Returned(t) =>
         LET f == frame[t]
         IN  /\ f.recvNil => f.err = ErrAppSettingsNil
             /\ ~f.recvNil /\ f.arg = NilSettings => f.err = ErrSettingsParamNil
             /\ ~f.recvNil /\ f.arg # NilSettings /\ f.reader = NilReader
                   => f.err = ErrReaderNil
             /\ ~GuardViolated(f)
                   => f.err \notin {ErrAppSettingsNil, ErrSettingsParamNil, ErrReaderNil}

\* Read(nil) on a Composer without a reader returned the nil-settings error.
C1_Witness ==
    \E t \in Callers :
        /\ Returned(t) /\ ~frame[t].recvNil
        /\ frame[t].arg = NilSettings /\ frame[t].reader = NilReader
        /\ frame[t].err = ErrSettingsParamNil

\* C2: a call of Read that violates a guard returns in the step that makes
\* it, having called nothing, and leaves the source, the settings value, the
\* Composer's slots and the file as they were.
C2_GuardFailureHasNoEffect ==
    [][\A t \in Callers :
          (Idle(t) /\ ~Idle(t)' /\ GuardViolated(frame'[t]))
             => /\ Returned(t)'
                /\ frame'[t].log = <<>>
                /\ src' = src /\ settings' = settings
                /\ composer' = composer /\ fs' = fs]_vars

\* A call on a nil Composer returned while the caller's Composer holds an
\* untouched source and both plugins.
C2_Witness ==
    \E t \in Callers :
        /\ Returned(t) /\ frame[t].err = ErrAppSettingsNil /\ frame[t].log = <<>>
        /\ src.kind = "reader" /\ src.closes = 0 /\ ~src.atEOF
        /\ composer.updater # NilUpdater /\ composer.validator # NilValidator

\* Position of the one call of op in the log (0 when there is none).
At(f, op) == IF op \in Ops(f) THEN CHOOSE i \in 1..Len(f.log) : f.log[i].op = op ELSE 0

\* C3: in one call the stages run in the order read, decode, override,
\* validate, each at most once; Update is called only after a read and a
\* decode that succeeded, Validate only after a successful decode and after
\* an override stage that succeeded or was skipped.
C3_StagesInOrderOnce ==
    \A t \in Callers :
        LET f == frame[t]
        IN  /\ \A op \in {"read", "decode", "update", "validate"} : Count(f, op) <= 1
            /\ "decode" \in Ops(f) =>
                  /\ Passed(f, "read") /\ At(f, "read") < At(f, "decode")
            /\ "update" \in Ops(f) =>
                  /\ Passed(f, "read") /\ Passed(f, "decode")
                  /\ At(f, "decode") < At(f, "update")
            /\ "validate" \in Ops(f) =>
                  /\ Passed(f, "read") /\ Passed(f, "decode")
                  /\ At(f, "decode") < At(f, "validate")
                  /\ "update" \in Ops(f) =>
                        Passed(f, "update") /\ At(f, "update") < At(f, "validate")

\* A call ran all four stages.
C3_Witness ==
    \E t \in Callers :
        /\ Returned(t)
        /\ Passed(frame[t], "read") /\ Passed(frame[t], "decode")
        /\ Passed(frame[t], "update") /\ "validate" \in Ops(frame[t])

\* C4: a call that passed the guards has called Close exactly once when it
\* ends, by return or by panic, whatever stage ended it; Close is the last
\* call it makes, and it never calls Close twice.
C4_ClosedExactlyOnce ==
    \A t \in Callers :
        LET f == frame[t]
        IN  /\ Count(f, "close") <= 1
            /\ (Done(t) /\ ~GuardViolated(f)) =>
                  /\ Count(f, "close") = 1
                  /\ f.log[Len(f.log)].op = "close"
            /\ f.pc \notin {"idle"} => Count(f, "close") = 0

\* A call that ended in a panic of a plugin closed the source once.
C4_Witness ==
    \E t \in Callers :
        /\ Done(t) /\ frame[t].status = "panicked"
        /\ \E i \in 1..Len(frame[t].log) :
              frame[t].log[i].op \in {"update", "validate"} /\ frame[t].log[i].out = "panic"
        /\ Count(frame[t], "close") = 1

\* Every stage before the close succeeded or was skipped.
AllStagesPassed(f) ==
    /\ Passed(f, "read") /\ Passed(f, "decode")
    /\ \A i \in 1..Len(f.log) : f.log[i].op # "close" => f.log[i].out = "ok"

\* C5: when read, decode and every attached later stage succeed and Close
\* fails, Read returns an error of the close kind that also carries the
\* cause Close returned.
C5_CloseFailureAfterSuccess ==
    \A t \in Callers :
        (Returned(t) /\ AllStagesPassed(frame[t]) /\ Failed(frame[t], "close")) =>
            /\ frame[t].err # NilErr
            /\ Is(frame[t].err, ErrClosingFile)
            /\ Is(frame[t].err, CauseOf(frame[t], "close"))

\* A call whose updater and validator both succeeded returned after a failed close.
C5_Witness ==
    \E t \in Callers :
        /\ Returned(t) /\ AllStagesPassed(frame[t]) /\ Failed(frame[t], "close")
        /\ Passed(frame[t], "update") /\ Passed(frame[t], "validate")

\* The error kinds of section 7 and the stage each one belongs to.
Sentinels ==
    {ErrAppSettingsNil[1], ErrSettingsParamNil[1], ErrReaderNil[1], ErrOpeningFile[1],
     ErrClosingFile[1], ErrReadingFile[1], ErrUnmarshalingFile[1], ErrUpdateSettings[1],
     ErrValidateSettings[1]}
Kinds(err) == {err[i] : i \in 1..Len(err)} \cap Sentinels
KindOfStage(op) ==
    CASE op = "read" -> ErrReadingFile[1]
      [] op = "decode" -> ErrUnmarshalingFile[1]
      [] op = "update" -> ErrUpdateSettings[1]
      [] op = "validate" -> ErrValidateSettings[1]
      [] op = "close" -> ErrClosingFile[1]

\* The first call in the log that returned an error (0 when none did).
FirstFailure(f) ==
    IF \E i \in 1..Len(f.log) : f.log[i].out = "err"
    THEN CHOOSE i \in 1..Len(f.log) :
            /\ f.log[i].out = "err"
            /\ \A j \in 1..(i - 1) : f.log[j].out # "err"
    ELSE 0

\* C6 as stated: the error Read returns has the kind of the first stage that
\* failed (in the order read, decode, override, validate, close) and of no
\* other, and Read returns an error exactly when some stage failed.
C6_FirstFailureIsTheResult ==
    \A t \in Callers :
        (Returned(t) /\ ~GuardViolated(frame[t])) =>
            LET f == frame[t]
            IN  IF FirstFailure(f) = 0 THEN f.err = NilErr
                ELSE Kinds(f.err) = {KindOfStage(f.log[FirstFailure(f)].op)}

\* C6 amended: the error Read returns has one kind: the close kind when
\* Close failed, whatever failed before it, and otherwise the kind of the
\* first stage that failed in the order read, decode, override, validate;
\* Read returns an error exactly when some stage or the close failed.
C6_CloseElseFirstFailure ==
    \A t \in Callers :
        (Returned(t) /\ ~GuardViolated(frame[t])) =>
            LET f == frame[t]
            IN  IF FirstFailure(f) = 0 THEN f.err = NilErr
                ELSE IF Failed(f, "close") THEN Kinds(f.err) = {ErrClosingFile[1]}
                ELSE Kinds(f.err) = {KindOfStage(f.log[FirstFailure(f)].op)}

\* A call whose read failed and whose close failed returned the close error.
C6_Witness ==
    \E t \in Callers :
        /\ Returned(t) /\ Failed(frame[t], "read") /\ Failed(frame[t], "close")
        /\ Kinds(frame[t].err) = {ErrClosingFile[1]}

\* C7 as stated: Update and Validate are called only after Close was called
\* and returned without error.
C7_ClosedBeforePlugins ==
    \A t \in Callers :
        \A i \in 1..Len(frame[t].log) :
            frame[t].log[i].op \in {"update", "validate"} =>
                \E j \in 1..(i - 1) :
                    frame[t].log[j].op = "close" /\ frame[t].log[j].out = "ok"

\* C8: when the read succeeds and Close fails, Read returns an error of the
\* close kind and of no other kind, also when the decode failed.
C8_CloseFailureMasksDecode ==
    \A t \in Callers :
        (Returned(t) /\ Passed(frame[t], "read") /\ Failed(frame[t], "close")) =>
            /\ Kinds(frame[t].err) = {ErrClosingFile[1]}
            /\ Is(frame[t].err, CauseOf(frame[t], "close"))
            /\ ~Is(frame[t].err, ErrUnmarshalingFile)

\* A read of zero bytes whose decode failed and whose close failed.
C8_Witness ==
    \E t \in Callers :
        /\ Returned(t) /\ Passed(frame[t], "read") /\ frame[t].data = EmptyDoc
        /\ Failed(frame[t], "decode") /\ Failed(frame[t], "close")

\* C9 as stated: when the read fails, Read returns an error of the read
\* kind, calls neither the decoder nor a plugin, and calls Close.
C9_ReadFailureReturnsReadKind ==
    \A t \in Callers :
        (Returned(t) /\ Failed(frame[t], "read")) =>
            /\ Is(frame[t].err, ErrReadingFile)
            /\ Ops(frame[t]) = {"read", "close"}

\* C9 amended: when the read fails, Read calls neither the decoder nor a
\* plugin and calls Close once; it returns the read-kind error with the
\* reader's cause when that Close succeeds, and the close-kind error in its
\* place when the Close fails too.
C9_ReadFailureEndsCall ==
    \A t \in Callers :
        (Returned(t) /\ Failed(frame[t], "read")) =>
            LET f == frame[t]
            IN  /\ Ops(f) = {"read", "close"} /\ Count(f, "close") = 1
                /\ Passed(f, "close") =>
                      Kinds(f.err) = {ErrReadingFile[1]} /\ Is(f.err, CauseOf(f, "read"))
                /\ Failed(f, "close") =>
                      Kinds(f.err) = {ErrClosingFile[1]} /\ ~Is(f.err, ErrReadingFile)

\* A failed read on a Composer with both plugins attached, closed cleanly.
C9_Witness ==
    \E t \in Callers :
        /\ Returned(t) /\ Failed(frame[t], "read") /\ Passed(frame[t], "close")
        /\ composer.updater # NilUpdater /\ composer.validator # NilValidator

\* C10: when the decode fails and Close succeeds, Read returns an error of
\* the unmarshal kind only, and calls neither Update nor Validate, whatever
\* plugins are attached.
C10_DecodeFailure ==
    \A t \in Callers :
        (Returned(t) /\ Failed(frame[t], "decode") /\ Passed(frame[t], "close")) =>
            /\ Kinds(frame[t].err) = {ErrUnmarshalingFile[1]}
            /\ Is(frame[t].err, CauseOf(frame[t], "decode"))
            /\ Ops(frame[t]) \cap {"update", "validate"} = {}

\* A document that is not JSON, on a Composer with both plugins attached.
C10_Witness ==
    \E t \in Callers :
        /\ Returned(t) /\ frame[t].data = NotJsonDoc
        /\ Failed(frame[t], "decode") /\ Passed(frame[t], "close")
        /\ composer.updater # NilUpdater /\ composer.validator # NilValidator


\* C11 as stated: when an attached updater returns an error, Read returns
\* the update-kind error joined with the updater's error, and Validate is
\* not called.
C11_UpdateFailureReturnsUpdateKind ==
    \A t \in Callers :
        (Returned(t) /\ Failed(frame[t], "update")) =>
            /\ frame[t].err = Join(ErrUpdateSettings, CauseOf(frame[t], "update"))
            /\ "validate" \notin Ops(frame[t])

\* C12 as stated: when an attached validator reports violations, Read
\* returns the validate-kind error followed by exactly the violations the
\* validator reported, each once and in its order.
C12_ValidateFailureKeepsAllViolations ==
    \A t \in Callers :
        (Returned(t) /\ Failed(frame[t], "validate")) =>
            frame[t].err = Join(ErrValidateSettings, CauseOf(frame[t], "validate"))

\* C13 as stated: without updater and validator a document that decodes,
\* from a source that reads and closes cleanly, makes Read succeed; without
\* an updater Update is not called and an attached validator still runs;
\* without a validator Read succeeds once the override stage has succeeded
\* or was skipped.
C13_LaterStagesAreOptIn ==
    \A t \in Callers :
        (Returned(t) /\ ~GuardViolated(frame[t])) =>
            LET f == frame[t]
            IN  /\ ( /\ composer.updater = NilUpdater /\ composer.validator = NilValidator
                     /\ Passed(f, "read") /\ Passed(f, "decode") /\ Passed(f, "close") )
                      => f.err = NilErr
                /\ composer.updater = NilUpdater =>
                      /\ "update" \notin Ops(f)
                      /\ (composer.validator # NilValidator /\ Passed(f, "decode"))
                            => "validate" \in Ops(f)
                /\ ( /\ composer.validator = NilValidator
                     /\ Passed(f, "decode") /\ ~Failed(f, "update") )
                      => f.err = NilErr /\ "validate" \notin Ops(f)


\* The value a successful decode of the call's document leaves in a settings
\* value that held pre: the fields the document names, the rest as they were.
Decoded(f) ==
    [Level |-> IF f.data.Level = Absent THEN f.pre.Level ELSE f.data.Level,
     Credentials |-> IF f.data.Credentials = Absent THEN f.pre.Credentials
                     ELSE f.data.Credentials]

\* What the updater the call invoked writes, field by field ("" for a field
\* it does not write; nothing when no updater was invoked).
Overrides(f) ==
    IF f.updater = NilUpdater THEN [Level |-> "", Credentials |-> ""]
    ELSE [Level |-> Updaters[f.updater].LogLevel,
          Credentials |-> Updaters[f.updater].GoogleCredentials]

\* The decoded value with the updater's writes on top.
Merged(f) ==
    [Level |-> IF Overrides(f).Level # "" THEN Overrides(f).Level ELSE Decoded(f).Level,
     Credentials |-> IF Overrides(f).Credentials # "" THEN Overrides(f).Credentials
                     ELSE Decoded(f).Credentials]

\* The call returned nil.
Succeeded(t) == Returned(t) /\ ~GuardViolated(frame[t]) /\ frame[t].err = NilErr

\* C14: after a successful Read the settings value is the decoded document
\* with the updater's writes on top: a field the updater wrote has the
\* updater's value, any other field the document's value, or the value it
\* had before the call when the document does not name it.
C14_DecodedThenOverridden ==
    \A t \in Callers :
        (Succeeded(t) /\ frame[t].arg = "testSettings") => settings = Merged(frame[t])

\* A successful call whose document set the level and whose updater
\* replaced it, on a settings value that already held credentials.
C14_Witness ==
    \E t \in Callers :
        /\ Succeeded(t) /\ frame[t].arg = "testSettings"
        /\ frame[t].data.Level = "Debug" /\ frame[t].updater = "level"
        /\ settings.Level = "Info" /\ frame[t].pre.Credentials = "something"
        /\ settings.Credentials = "something"

\* C15 as stated: when the document leaves the credentials empty and the
\* updater fills them (no other required field being left empty), the
\* validator, run on the merged value, reports no violation and Read succeeds.
C15_ValidatorSeesMergedSettings ==
    \A t \in Callers :
        LET f == frame[t]
        IN  ( /\ Returned(t) /\ f.arg = "testSettings"
              /\ Passed(f, "update") /\ f.validator = "settings"
              /\ Decoded(f).Credentials = "" /\ Overrides(f).Credentials # ""
              /\ Merged(f).Level # "" )
               => /\ Passed(f, "validate")
                  /\ f.err = NilErr


\* No call of Read is under way in any frame.
NoneRunning == \A t \in Callers : frame[t].pc = "idle"

\* C16 as stated: over the life of a Composer its source is closed at most
\* once, and exactly once as soon as a Read got past the guards.
C16_ClosedOnceInALifetime ==
    /\ src.closes <= 1
    /\ NoneRunning => (src.closes = 1 <=> src.reads >= 1)

\* C16 amended: the source is closed once per Read call that got past the
\* guards and never otherwise: between calls the number of Close calls
\* equals the number of such Read calls, whatever attach calls and
\* guard-failing Read calls were made.
C16_ClosedOncePerRead ==
    /\ NoneRunning => src.closes = src.reads
    /\ \A t \in Callers : frame[t].pc # "idle" => src.closes = src.reads - 1

\* Two Read calls got past the guards on one Composer and the source was
\* closed twice.
C16_Witness ==
    /\ NoneRunning /\ src.reads = 2 /\ src.closes = 2
    /\ \E t \in Callers : Returned(t)

\* The call is not the first one that reached the Composer's source.
Repeated(t) == Returned(t) /\ frame[t].nth >= 2

\* C17 as stated: a second execution of Read on the same Composer, begun
\* after the first or while it runs, returns an error, and the error arises
\* at the read stage or from the close.
C17_SecondReadFailsAtReadOrClose ==
    \A t \in Callers :
        Repeated(t) =>
            /\ frame[t].err # NilErr
            /\ Failed(frame[t], "read") \/ Failed(frame[t], "close")

\* C17 amended. An execution of Read begun after an earlier one on the same
\* Composer had closed the source never returns success when the source is
\* the default file or a reader that was read to its end: on the file the
\* read fails and the second Close fails, and the close-kind error is
\* returned; on such a reader the read fails or yields zero bytes, whose
\* decode fails, and the read-, unmarshal- or close-kind error is returned.
\* Of two executions that overlap on the default file at most one returns
\* success, and it need not be the one that began first.
C17_SecondReadOfConsumedSourceFails ==
    /\ \A t \in Callers :
          (Repeated(t) /\ frame[t].closed) =>
             LET f == frame[t]
             IN  /\ src.kind = "file" =>
                       /\ Failed(f, "read") /\ Failed(f, "close")
                       /\ Kinds(f.err) = {ErrClosingFile[1]}
                 /\ (src.kind = "reader" /\ f.eof) =>
                       /\ f.err # NilErr
                       /\ Failed(f, "read") \/ (f.data = EmptyDoc /\ Failed(f, "decode"))
                       /\ Kinds(f.err) \subseteq
                             {ErrReadingFile[1], ErrUnmarshalingFile[1], ErrClosingFile[1]}
                       /\ Kinds(f.err) # {}
    /\ \A t \in Callers, u \in Callers :
          (t # u /\ Succeeded(t)) => ~Succeeded(u)

\* Two executions overlapped on the default file: the one that began second
\* took the document and succeeded, the one that began first found the
\* stream at its end and failed.
C17_Witness ==
    \E t \in Callers, u \in Callers :
        /\ Returned(t) /\ Returned(u)
        /\ frame[t].nth = 1 /\ frame[u].nth = 2 /\ ~frame[u].closed
        /\ Succeeded(u) /\ frame[t].err # NilErr

\* C18: NewComposerWithReader with a reader succeeds, whatever the reader's
\* read or close would do, and returns a Composer that holds that reader,
\* unread and unclosed, and no plugins.
C18_ConstructionKeepsTheReader ==
    (last.op = "NewComposerWithReader" /\ last.reader.kind = "reader") =>
        /\ last.ok /\ last.err = NilErr
        /\ composer = [jsonReader |-> "reader", updater |-> NilUpdater,
                       validator |-> NilValidator]
        /\ src = last.reader
        /\ ~src.atEOF /\ src.closes = 0 /\ src.reads = 0

\* A Composer was just made over a reader whose read and close both fail.
C18_Witness ==
    /\ last.op = "NewComposerWithReader" /\ last.ok
    /\ last.reader.kind = "reader"
    /\ last.reader.HasReadError /\ last.reader.HasCloseError
    /\ composer.jsonReader = "reader"

\* C19: the constructor called with nil opens appsettings.json. Without the
\* file it returns no Composer and the open-kind error joined with the
\* cause that names the file; with the file it returns a Composer that owns
\* the opened, unread file and has no plugins, whatever the file holds.
C19_DefaultFile ==
    (last.op = "NewComposerWithReader" /\ last.reader.kind = "none") =>
        IF fs.exists
        THEN /\ last.ok /\ last.err = NilErr
             /\ composer = [jsonReader |-> "file", updater |-> NilUpdater,
                            validator |-> NilValidator]
             /\ src = NewSource("file", fs.content, FALSE, FALSE)
        ELSE /\ ~last.ok
             /\ last.err = <<ErrOpeningFile[1],
                             "open appsettings.json: no such file or directory">>

\* NewComposer() just succeeded on a file that is not JSON.
C19_Witness ==
    /\ last.op = "NewComposerWithReader" /\ last.reader.kind = "none" /\ last.ok
    /\ fs = FileOf(NotJsonDoc) /\ src.kind = "file" /\ src.content = NotJsonDoc

\* C20: an attach call puts its argument in its slot, whatever the slot
\* held, and leaves the other slot alone; nothing but an attach call or a
\* constructor changes a slot; and the plugin that Read invokes is the one
\* its slot holds, so a replaced plugin is never invoked.
C20_LatestPluginIsUsed ==
    [][ /\ last'.op = "WithUpdater" =>
              /\ composer'.updater = last'.plugin
              /\ composer'.validator = composer.validator
        /\ last'.op = "WithValidator" =>
              /\ composer'.validator = last'.plugin
              /\ composer'.updater = composer.updater
        /\ last'.op = "none" => composer' = composer
        /\ \A t \in Callers :
              /\ ("update" \in Ops(frame'[t]) /\ "update" \notin Ops(frame[t])) =>
                    /\ frame'[t].updater = composer.updater
                    /\ composer.updater # NilUpdater
              /\ ("validate" \in Ops(frame'[t]) /\ "validate" \notin Ops(frame[t])) =>
                    /\ frame'[t].validator = composer.validator
                    /\ composer.validator # NilValidator ]_vars

\* WithUpdater just replaced an attached updater by another one.
C20_Witness ==
    /\ last.op = "WithUpdater"
    /\ last.replaced # NilUpdater /\ last.plugin # NilUpdater
    /\ last.plugin # last.replaced
    /\ composer.updater = last.plugin


\* C21 as stated: attaching nil empties the slot, whatever it held. With
\* the updater slot empty Read does not call Update and still calls an
\* attached validator after a successful decode; with the validator slot
\* empty Read returns success, without calling Validate, once decode and
\* override have succeeded.
C21_NilDisablesTheSlot ==
    /\ (last.op = "WithUpdater" /\ last.plugin = NilUpdater) =>
          composer.updater = NilUpdater
    /\ (last.op = "WithValidator" /\ last.plugin = NilValidator) =>
          composer.validator = NilValidator
    /\ \A t \in Callers :
          (Returned(t) /\ ~GuardViolated(frame[t])) =>
             LET f == frame[t]
             IN  /\ composer.updater = NilUpdater =>
                       /\ "update" \notin Ops(f)
                       /\ (composer.validator # NilValidator /\ Passed(f, "decode"))
                             => "validate" \in Ops(f)
                 /\ composer.validator = NilValidator =>
                       /\ "validate" \notin Ops(f)
                       /\ (Passed(f, "decode") /\ ~Failed(f, "update")) => f.err = NilErr

\* The stage whose error a failed call returns: the close when it failed,
\* otherwise the first stage that failed.
Reported(f) ==
    IF Failed(f, "close") THEN "close"
    ELSE IF FirstFailure(f) = 0 THEN "none"
    ELSE f.log[FirstFailure(f)].op

\* C22 as stated: a failed open returns the open kind with the cause of the
\* open; and whenever the read, the decode, the update, the validation or
\* the close of a call fails, the error Read returns matches that stage's
\* kind and contains the cause that stage returned.
C22_EveryFailureKeepsKindAndCause ==
    /\ (last.op = "NewComposerWithReader" /\ ~last.ok) =>
          /\ Is(last.err, ErrOpeningFile)
          /\ Is(last.err, <<"open appsettings.json: no such file or directory">>)
    /\ \A t \in Callers :
          Returned(t) =>
             \A op \in {"read", "decode", "update", "validate", "close"} :
                Failed(frame[t], op) =>
                   /\ Is(frame[t].err, <<KindOfStage(op)>>)
                   /\ Is(frame[t].err, CauseOf(frame[t], op))

\* C22 amended: a failed open returns the open kind with the cause of the
\* open; a failed Read past the guards returns exactly the kind and the
\* cause of one stage: of the close when Close failed, otherwise of the
\* first stage that failed. The kind and cause of a stage that failed
\* before a failing Close are not in the returned error.
C22_ReportedFailureKeepsKindAndCause ==
    /\ (last.op = "NewComposerWithReader" /\ ~last.ok) =>
          /\ Is(last.err, ErrOpeningFile)
          /\ Is(last.err, <<"open appsettings.json: no such file or directory">>)
    /\ \A t \in Callers :
          (Returned(t) /\ ~GuardViolated(frame[t]) /\ frame[t].err # NilErr) =>
             LET f == frame[t]
                 op == Reported(f)
             IN  /\ Failed(f, op)
                 /\ f.err = Join(<<KindOfStage(op)>>, CauseOf(f, op))
                 /\ Is(f.err, <<KindOfStage(op)>>) /\ Is(f.err, CauseOf(f, op))
                 /\ \A o \in {"read", "decode", "update", "validate"} :
                       (Failed(f, o) /\ o # op) =>
                          /\ ~Is(f.err, <<KindOfStage(o)>>)
                          /\ ~Is(f.err, CauseOf(f, o))

\* A call whose updater failed returned the update kind with the updater's
\* error after a clean close.
C22_Witness ==
    \E t \in Callers :
        /\ Returned(t) /\ Failed(frame[t], "update") /\ Passed(frame[t], "close")
        /\ frame[t].err = <<ErrUpdateSettings[1], "updater error">>

\* C23: WithUpdater writes the updater slot of the Composer it is called on
\* and WithValidator its validator slot, and that is all either does: the
\* source, the other slot, the file, the settings value and the calls made
\* on the collaborators stay as they were.
C23_AttachChangesOneSlot ==
    [][ /\ last'.op = "WithUpdater" =>
              /\ composer' = [composer EXCEPT !.updater = last'.plugin]
              /\ UNCHANGED <<fs, src, settings, frame>>
        /\ last'.op = "WithValidator" =>
              /\ composer' = [composer EXCEPT !.validator = last'.plugin]
              /\ UNCHANGED <<fs, src, settings, frame>> ]_vars

\* A validator was just attached to a Composer that already had an updater
\* and a source that an earlier Read had consumed.
C23_Witness ==
    /\ last.op = "WithValidator" /\ last.plugin # NilValidator
    /\ composer.validator = last.plugin /\ composer.updater # NilUpdater
    /\ src.kind = "reader" /\ src.closes = 1 /\ src.atEOF


\* C24: a call of Read that returns, returns nil exactly when the Composer,
\* the settings argument and the source are non-nil, the read and the decode
\* succeeded, the attached updater and the attached validator, if any,
\* returned no error, and Close returned no error.
C24_SuccessIffEveryStageSucceeds ==
    \A t \in Callers :
        Returned(t) =>
            LET f == frame[t]
            IN  f.err = NilErr <=>
                   /\ ~f.recvNil /\ f.arg # NilSettings /\ f.reader # NilReader
                   /\ Passed(f, "read") /\ Passed(f, "decode")
                   /\ composer.updater # NilUpdater => Passed(f, "update")
                   /\ composer.validator # NilValidator => Passed(f, "validate")
                   /\ Passed(f, "close")

\* A call with both plugins attached returned nil.
C24_Witness ==
    \E t \in Callers :
        /\ Succeeded(t) /\ composer.updater # NilUpdater /\ composer.validator # NilValidator
        /\ Passed(frame[t], "update") /\ Passed(frame[t], "validate")
        /\ Passed(frame[t], "close")

\* C25: once the read of a call has failed, the settings value is as it was
\* at the call and stays so to the end of the call: neither the decoder nor
\* a plugin is called. A failed decode leaves the value as it was, or with
\* the fields it wrote when the document has a field of the wrong type.
C25_ReadFailureLeavesSettings ==
    \A t \in Callers :
        LET f == frame[t]
        IN  /\ Failed(f, "read") =>
                  /\ settings = f.pre
                  /\ Ops(f) \cap {"decode", "update", "validate"} = {}
            /\ (Failed(f, "decode") /\ f.arg = "testSettings") =>
                  /\ settings = IF f.data.kind = "type" THEN Decoded(f) ELSE f.pre
                  /\ Ops(f) \cap {"update", "validate"} = {}

\* A failed read on a Composer with both plugins, called with a settings
\* value that an earlier call had filled.
C25_Witness ==
    \E t \in Callers :
        /\ Returned(t) /\ Failed(frame[t], "read") /\ frame[t].arg = "testSettings"
        /\ frame[t].pre # ZeroSettings /\ settings = frame[t].pre
        /\ composer.updater # NilUpdater /\ composer.validator # NilValidator

\* C26: when Read returns an error after a successful decode (an update-,
\* validate- or close-kind error), the settings value holds what the decode
\* and the updater of that call wrote: nothing is rolled back.
C26_NoRollback ==
    \A t \in Callers :
        LET f == frame[t]
        IN  ( /\ Returned(t) /\ f.arg = "testSettings"
              /\ Passed(f, "decode") /\ f.err # NilErr ) =>
                 /\ Kinds(f.err) \subseteq
                       {ErrUpdateSettings[1], ErrValidateSettings[1], ErrClosingFile[1]}
                 /\ Kinds(f.err) # {}
                 /\ settings = Merged(f)

\* A call failed in the updater and left the level of the document and the
\* credentials of the updater in a settings value that had neither.
C26_Witness ==
    \E t \in Callers :
        /\ Returned(t) /\ frame[t].arg = "testSettings"
        /\ Kinds(frame[t].err) = {ErrUpdateSettings[1]}
        /\ frame[t].pre = ZeroSettings
        /\ settings = [Level |-> "Debug", Credentials |-> "something"]

\* C27: no step of Read changes a slot of the Composer; a call on a
\* Composer whose source was closed before still passes the nil-reader
\* guard, and when it returns it has read and closed that source once more.
C27_ReadKeepsTheComposer ==
    [][ /\ frame' # frame => composer' = composer
        /\ \A t \in Callers :
              /\ ( /\ frame[t].pc = "idle" /\ frame'[t].status # "none"
                   /\ src.closes > 0 /\ ~frame'[t].recvNil /\ frame'[t].arg # NilSettings ) =>
                    /\ frame'[t].reader = composer.jsonReader
                    /\ frame'[t].reader # NilReader
                    /\ frame'[t].pc = "readall" /\ frame'[t].err = NilErr
              /\ ( /\ frame[t].pc = "close" /\ frame'[t].status = "returned"
                   /\ frame[t].closed ) =>
                    /\ Count(frame'[t], "read") = 1 /\ Count(frame'[t], "close") = 1
                    /\ src'.closes = src.closes + 1 /\ src'.closes >= 2
                    /\ src'.kind = src.kind /\ src'.content = src.content ]_vars

\* A second call on the same Composer returned after reading and closing
\* the source that the first call had closed.
C27_Witness ==
    \E t \in Callers :
        /\ Returned(t) /\ frame[t].nth = 2 /\ frame[t].closed
        /\ frame[t].reader = composer.jsonReader /\ composer.jsonReader # NilReader
        /\ Count(frame[t], "read") = 1 /\ Count(frame[t], "close") = 1
        /\ src.closes = 2


\* C28 as stated: when ReadSettingsFromFileAndEnv has read and decoded
\* appsettings.json and the close of the file fails, the call returns the
\* close error, "failed to close appsettings file" joined with the cause,
\* and not success.
C28_CloseFailureIsSurfaced ==
    \A t \in Callers :
        ( /\ Returned(t) /\ Passed(frame[t], "read") /\ Passed(frame[t], "decode")
          /\ Failed(frame[t], "close") ) =>
              /\ frame[t].err # NilErr
              /\ frame[t].err = Join(ErrClosingFile, CauseOf(frame[t], "close"))

====
